---- MODULE Spec2Model ----
(***************************************************************************)
(* Forward mode AD of UFL expressions (ufl/algorithms/forward_ad.py).      *)
(*                                                                         *)
(* An expression node is a record                                          *)
(*   [k, ops, sh, fi, idims, a, idx]                                       *)
(* k the node class, ops the operand nodes, sh the shape, fi the tuple of  *)
(* free indices, idims the index dimensions (a set of <<index, dim>>), a   *)
(* an integer attribute (value, count or label) and idx the indices of a   *)
(* MultiIndex operand.  Nodes are values: two nodes are the same node when *)
(* they are equal.                                                         *)
(*                                                                         *)
(* One behaviour is one AD run: Init is the state after the constructor of *)
(* SpatialAD, VariableAD or CoefficientAD, and the actions are the steps   *)
(* of alg.visit(f): the descent of Transformer.visit into the operands and *)
(* one action per handler.                                                 *)
(***************************************************************************)
EXTENDS Integers, Sequences, FiniteSets, Bags, TLC

\* Largest spatial dimension of a run (spatial_dim ranges over 1..Dim).
Dim == 2
\* Largest number of operands of a Sum or Product node of the input.
MaxOps == 3

VARIABLES
    self,            \* the algorithm object: class and differentiation variable
    root,            \* the expression f handed to alg.visit
    stack,           \* the active calls of visit, innermost last
    status,          \* "running", "done" or "error"
    err,             \* the message of the fatal error, "" when none
    result,          \* the pair returned by alg.visit(f)
    variable_cache,  \* self._variable_cache: label -> (v, vp)
    cache,           \* self._cache
    count,           \* Index._globalcount, the next fresh index
    warnings,        \* the calls of warning(), in order
    last,            \* the handler call that ended last
    returned,        \* every pair a handler has returned in this run
    evals,           \* bag of nodes: handler calls ended per node
    wrapped,         \* bag of labels: visits of a Variable's expression
    mutations        \* the writes to a container owned by a node, in order

vars == <<self, root, stack, status, err, result, variable_cache, cache,
          count, warnings, last, returned, evals, wrapped, mutations>>

-----------------------------------------------------------------------------
(* Indices and index tuples *)

Index(n) == [cls |-> "Index", count |-> n]
FixedIndex(n) == [cls |-> "FixedIndex", count |-> n]
IsIndex(j) == j.cls = "Index"

SeqToSet(s) == {s[n] : n \in DOMAIN s}

RECURSIVE unique_indices(_)
unique_indices(s) ==
    IF s = <<>> THEN <<>>
    ELSE LET init == unique_indices(SubSeq(s, 1, Len(s) - 1))
             x == s[Len(s)]
         IN IF IsIndex(x) /\ x \notin SeqToSet(init) THEN Append(init, x) ELSE init

Without(s, rm) == SelectSeq(s, LAMBDA x : x \notin rm)
Repeated(s, t) == SelectSeq(s, LAMBDA x : x \in SeqToSet(t))

Keys(idims) == {p[1] : p \in idims}
DimOf(idims, i) == (CHOOSE p \in idims : p[1] = i)[2]
subdict(idims, fi) == {p \in idims : p[1] \in SeqToSet(fi)}
\* dict.update
Update(idims, more) == {p \in idims : p[1] \notin Keys(more)} \cup more

\* indices(n) with Index._globalcount = c
indices(n, c) == [m \in 1..n |-> Index(c + m - 1)]

-----------------------------------------------------------------------------
(* Node classes *)

Mk(k, ops, sh, fi, idims, a, idx) ==
    [k |-> k, ops |-> ops, sh |-> sh, fi |-> fi, idims |-> idims, a |-> a, idx |-> idx]

None == Mk("None", <<>>, <<>>, <<>>, {}, 0, <<>>)
NoPair == [f |-> None, fp |-> None]
Pair(f, fp) == [f |-> f, fp |-> fp]

isZero(e) == e.k = "Zero"
is_ufl_scalar(e) == e.sh = <<>>
is_true_ufl_scalar(e) == e.sh = <<>> /\ e.fi = <<>>

Zero(sh, fi, idims) == Mk("Zero", <<>>, sh, fi, idims, 0, <<>>)
IntValue(v, fi, idims) == Mk("IntValue", <<>>, <<>>, fi, idims, v, <<>>)
Identity(d) == Mk("Identity", <<>>, <<d, d>>, <<>>, {}, d, <<>>)

\* Free indices and dimensions a multi index jj adds when it indexes shape sh.
IndexDims(jj, sh) ==
    {<<jj[n], sh[n]>> : n \in {m \in DOMAIN jj : IsIndex(jj[m]) /\ m <= Len(sh)}}

Indexed(A, jj) ==
    LET sh == IF Len(jj) >= Len(A.sh) THEN <<>> ELSE SubSeq(A.sh, Len(jj) + 1, Len(A.sh))
        fi == unique_indices(A.fi \o jj)
        idims == Update(A.idims, IndexDims(jj, A.sh))
    IN IF isZero(A) THEN Zero(sh, fi, idims)
       ELSE Mk("Indexed", <<A>>, sh, fi, idims, 0, jj)

ComponentTensor(A, ii) ==
    LET sh == [n \in DOMAIN ii |-> DimOf(A.idims, ii[n])] \o A.sh
        fi == Without(A.fi, SeqToSet(ii))
        idims == subdict(A.idims, fi)
    IN IF isZero(A) THEN Zero(sh, fi, idims)
       ELSE Mk("ComponentTensor", <<A>>, sh, fi, idims, 0, ii)

as_tensor(e, ii) == ComponentTensor(e, ii)

\* as_scalar(e) with Index._globalcount = c: the scalar, its indices, the count
as_scalar(e, c) ==
    IF e.sh = <<>> THEN [e |-> e, ii |-> <<>>, c |-> c]
    ELSE LET ii == indices(Len(e.sh), c)
         IN [e |-> Indexed(e, ii), ii |-> ii, c |-> c + Len(e.sh)]

IndexSum(A, i) ==
    LET fi == Without(A.fi, SeqToSet(i))
        idims == subdict(A.idims, fi)
    IN IF isZero(A) THEN Zero(A.sh, fi, idims)
       ELSE Mk("IndexSum", <<A>>, A.sh, fi, idims, 0, i)

RECURSIVE ConcatSh(_)
ConcatSh(ops) == IF ops = <<>> THEN <<>> ELSE Head(ops).sh \o ConcatSh(Tail(ops))
RECURSIVE ConcatFi(_)
ConcatFi(ops) == IF ops = <<>> THEN <<>> ELSE Head(ops).fi \o ConcatFi(Tail(ops))
UnionDims(ops) == UNION {ops[n].idims : n \in DOMAIN ops}

\* Product(*operands)
Product(ops) ==
    LET sh == ConcatSh(ops)
        fi == unique_indices(ConcatFi(ops))
        idims == UnionDims(ops)
    IN IF \E n \in DOMAIN ops : isZero(ops[n]) THEN Zero(sh, fi, idims)
       ELSE Mk("Product", ops, sh, fi, idims, 0, <<>>)

RECURSIVE SumOver(_, _)
SumOver(A, rep) ==
    IF rep = <<>> THEN A ELSE SumOver(IndexSum(A, <<Head(rep)>>), Tail(rep))

\* a*b: a product, summed over the indices a and b share
Mult(a, b) == SumOver(Product(<<a, b>>), Repeated(a.fi, b.fi))

\* a + b
Add(a, b) ==
    IF isZero(a) THEN b
    ELSE IF isZero(b) THEN a
    ELSE Mk("Sum", <<a, b>>, a.sh, a.fi, a.idims, 0, <<>>)

\* -a
Neg(a) == IF a.k = "IntValue" THEN [a EXCEPT !.a = -a.a] ELSE Mult(IntValue(-1, <<>>, {}), a)
Sub(a, b) == Add(a, Neg(b))

\* a/b
Division(a, b) ==
    LET fi == unique_indices(a.fi \o b.fi)
        idims == a.idims \cup b.idims
    IN IF isZero(a) THEN Zero(a.sh, fi, idims)
       ELSE Mk("Division", <<a, b>>, a.sh, fi, idims, 0, <<>>)

\* a**b
Power(a, b) == Mk("Power", <<a, b>>, <<>>, unique_indices(a.fi \o b.fi),
                  a.idims \cup b.idims, 0, <<>>)

\* ln(f), sin(f), cos(f)
MathFunction(name, f) == Mk(name, <<f>>, f.sh, f.fi, f.idims, 0, <<>>)
Ln(f) == MathFunction("Ln", f)
Sin(f) == MathFunction("Sin", f)
Cos(f) == MathFunction("Cos", f)

\* FloatValue(v); a counts halves, so Half(1) is 0.5 and Half(-1) is -0.5
Half(v) == Mk("FloatValue", <<>>, <<>>, <<>>, {}, v, <<>>)

\* bessel_J(nu, f), bessel_Y(nu, f), bessel_I(nu, f), bessel_K(nu, f)
Bessel(name, nu, f) == Mk(name, <<nu, f>>, <<>>, f.fi, f.idims, 0, <<>>)
\* nu + k for an integer k, folded when nu is an integer constant
NuPlus(nu, k) ==
    IF nu.k = "IntValue" THEN IntValue(nu.a + k, <<>>, {})
    ELSE IF isZero(nu) THEN IntValue(k, <<>>, {})
    ELSE Add(nu, IntValue(k, <<>>, {}))
\* nu == 0
IsNought(nu) == isZero(nu) \/ (nu.k = "IntValue" /\ nu.a = 0)

\* conditional(c, t, f)
Conditional(c, t, f) == Mk("Conditional", <<c, t, f>>, t.sh, t.fi, t.idims, 0, <<>>)

\* SpatialDerivative(f, ii) in a cell of dimension d
SpatialDerivative(f, ii, d) ==
    LET j == ii[1]
        new == IsIndex(j) /\ j \notin SeqToSet(f.fi)
    IN Mk("SpatialDerivative", <<f>>, f.sh,
          IF new THEN Append(f.fi, j) ELSE f.fi,
          IF new THEN Update(f.idims, {<<j, d>>}) ELSE f.idims, 0, ii)

\* is_spatially_constant(e): e is a constant value
is_spatially_constant(e) == e.k \in {"Zero", "IntValue", "FloatValue", "Identity"}

\* VariableDerivative(f, v) and CoefficientDerivative(f, w, v, cd), by the
\* operand f they differentiate
DerivativeMarker(name, f) == Mk(name, <<f>>, f.sh, f.fi, f.idims, 0, <<>>)

\* Transformer.reuse_if_possible(o, *operands)
reuse_if_possible(o, ops) == IF ops = o.ops THEN o ELSE [o EXCEPT !.ops = ops]

-----------------------------------------------------------------------------
(* What a handler call does next: call visit on an operand, return a pair, *)
(* or raise.  c is Index._globalcount, w the warnings emitted and vc the   *)
(* variable cache after the call.                                          *)

Out(r, c, w, e, vc, call) ==
    [r |-> r, c |-> c, w |-> w, e |-> e, vc |-> vc, call |-> call, mut |-> <<>>]
Ret(f, fp, c) == Out(Pair(f, fp), c, <<>>, "", variable_cache, None)
RetW(f, fp, c, w) == Out(Pair(f, fp), c, w, "", variable_cache, None)
Raise(msg) == Out(NoPair, count, <<>>, msg, variable_cache, None)
Call(e) == Out(NoPair, count, <<>>, "", variable_cache, e)

Warning(msg, o) == [msg |-> msg, o |-> o]

-----------------------------------------------------------------------------
(* class ForwardAD *)

make_zero_diff(o) ==
    LET sh == o.sh \o self.var_shape
        add == self.var_free_indices # <<>>
               /\ self.var_free_indices[1] \notin Keys(o.idims)
        i == self.var_free_indices[1]
        fi == IF add THEN unique_indices(Append(o.fi, i)) ELSE o.fi
        idims == IF add
                 THEN o.idims \cup {<<i, DimOf(self.var_index_dimensions, i)>>}
                 ELSE o.idims
    IN Zero(sh, fi, idims)

\* res after the loop of _make_ones_diff over the first n dimensions of sh;
\* the two indices of dimension m are Index(c + 2(m-1)) and Index(c + 2(m-1) + 1)
RECURSIVE OnesRes(_, _, _)
OnesRes(sh, n, c) ==
    LET dij == Indexed(Identity(sh[n]), <<Index(c + 2 * (n - 1)), Index(c + 2 * (n - 1) + 1)>>)
    IN IF n = 1 THEN dij ELSE Mult(OnesRes(sh, n - 1, c), dij)

\* _make_ones_diff without its assertion on the shape of o
make_ones_diff_unchecked(o) ==
    LET one == IntValue(1, o.fi, o.idims)
        sh == o.sh
        ind1 == [m \in DOMAIN sh |-> Index(count + 2 * (m - 1))]
        ind2 == [m \in DOMAIN sh |-> Index(count + 2 * (m - 1) + 1)]
    IN IF sh = <<>> THEN [fp |-> one, c |-> count, e |-> ""]
       ELSE [fp |-> as_tensor(OnesRes(sh, Len(sh), count), ind1 \o ind2),
             c |-> count + 2 * Len(sh), e |-> ""]

make_ones_diff(o) ==
    LET sh == o.sh
        add == self.var_free_indices # <<>>
               /\ self.var_free_indices[1] \notin Keys(o.idims)
        i == self.var_free_indices[1]
        fi == IF add THEN unique_indices(Append(o.fi, i)) ELSE o.fi
        idims == IF add
                 THEN o.idims \cup {<<i, DimOf(self.var_index_dimensions, i)>>}
                 ELSE o.idims
        one == IntValue(1, fi, idims)
        ind1 == [m \in DOMAIN sh |-> Index(count + 2 * (m - 1))]
        ind2 == [m \in DOMAIN sh |-> Index(count + 2 * (m - 1) + 1)]
        fp == as_tensor(OnesRes(sh, Len(sh), count), ind1 \o ind2)
    IN IF o.sh # self.var_shape
       THEN [fp |-> None, c |-> count, e |-> "This is only used by VariableDerivative, yes?"]
       ELSE IF sh = <<>> THEN [fp |-> one, c |-> count, e |-> ""]
       ELSE [fp |-> IF fi # <<>> THEN Mult(fp, one) ELSE fp,
             c |-> count + 2 * Len(sh), e |-> ""]

\* expr, lifting a node without a rule like a terminal
expr_as_terminal(o) == Ret(o, make_zero_diff(o), count)

expr(o) == Raise("Missing ForwardAD handler")

terminal(o) == Ret(o, make_zero_diff(o), count)

CacheGet(vc, l) == {en \in vc : en.key = l}
CachePut(vc, l, r) == {en \in vc : en.key # l} \cup {[key |-> l, val |-> r]}

\* variable, not looking the label up in the cache
variable_uncached(o, rs) ==
    IF rs = <<>> THEN Call(o.ops[1])
    ELSE LET v == reuse_if_possible(o, <<rs[1].f>>)
         IN [Ret(v, rs[1].fp, count)
               EXCEPT !.vc = CachePut(variable_cache, o.a, Pair(v, rs[1].fp))]

\* ForwardAD.variable; rs holds the pair of the wrapped expression once visited
variable(o, rs) ==
    LET e == o.ops[1]
        l == o.a
        hit == CacheGet(variable_cache, l)
    IN IF rs = <<>> /\ hit # {} THEN
           LET r == (CHOOSE en \in hit : TRUE).val IN Ret(r.f, r.fp, count)
       ELSE IF rs = <<>> THEN Call(e)
       ELSE LET v == reuse_if_possible(o, <<rs[1].f>>)
                r == Pair(v, rs[1].fp)
            IN [Ret(v, rs[1].fp, count) EXCEPT !.vc = CachePut(variable_cache, l, r)]

indexed(o, rs) ==
    IF rs = <<>> THEN Call(o.ops[1])
    ELSE LET jj == o.idx
             Ap == rs[1].fp
             o2 == reuse_if_possible(o, <<rs[1].f>>)
             r == Len(Ap.sh) - Len(jj)
             ii == indices(r, count)
         IN IF isZero(Ap) THEN Ret(o2, make_zero_diff(o2), count)
            ELSE IF r # 0 THEN Ret(o2, as_tensor(Indexed(Ap, jj \o ii), ii), count + r)
            ELSE Ret(o2, Indexed(Ap, jj), count)

\* index_sum, without the check of the summation index
index_sum_unchecked(o, rs) ==
    IF rs = <<>> THEN Call(o.ops[1])
    ELSE Ret(reuse_if_possible(o, <<rs[1].f>>), IndexSum(rs[1].fp, o.idx), count)

index_sum(o, rs) ==
    LET i == o.idx
    IN IF rs = <<>> THEN
           IF self.var_free_indices # <<>> /\ i[1] \in SeqToSet(self.var_free_indices)
           THEN Raise("Index scope collision.")
           ELSE Call(o.ops[1])
       ELSE Ret(reuse_if_possible(o, <<rs[1].f>>), IndexSum(rs[1].fp, i), count)

Firsts(rs) == [n \in DOMAIN rs |-> rs[n].f]
Seconds(rs) == [n \in DOMAIN rs |-> rs[n].fp]

\* sum(opsp[1:], opsp[0])
RECURSIVE PySum(_, _)
PySum(xs, start) == IF xs = <<>> THEN start ELSE PySum(Tail(xs), Add(start, Head(xs)))

sum(o, rs) ==
    Ret(reuse_if_possible(o, Firsts(rs)), PySum(Tail(Seconds(rs)), Seconds(rs)[1]), count)

\* The loop of ForwardAD.product over operands n..N, with fp accumulated
\* so far and Index._globalcount = c.
RECURSIVE ProductLoop(_, _, _, _, _)
ProductLoop(ops2, dops2, n, fp, c) ==
    IF n > Len(ops2) THEN [fp |-> fp, c |-> c]
    ELSE LET s == as_scalar(dops2[n], c)
             fpoperands == SubSeq(ops2, 1, n - 1) \o <<s.e>> \o SubSeq(ops2, n + 1, Len(ops2))
             p0 == Product(fpoperands)
             p == IF s.ii # <<>> THEN as_tensor(p0, s.ii) ELSE p0
         IN ProductLoop(ops2, dops2, n + 1, Add(fp, p), s.c)

\* product, with the loop missing the first operand
product_skips_first(o, rs) ==
    LET ops2 == Firsts(rs)
        res == ProductLoop(ops2, Seconds(rs), 2, make_zero_diff(o), count)
    IN Ret(reuse_if_possible(o, ops2), res.fp, res.c)

product(o, rs) ==
    LET fp0 == make_zero_diff(o)
        ops2 == Firsts(rs)
        o2 == reuse_if_possible(o, ops2)
        res == ProductLoop(ops2, Seconds(rs), 1, fp0, count)
    IN Ret(o2, res.fp, res.c)

\* division, without the assertion on the denominator
division_unchecked_denominator(o, rs) ==
    LET f == rs[1].f
        g == rs[2].f
        o2 == reuse_if_possible(o, <<f, g>>)
        so == as_scalar(o2, count)
        sgp == as_scalar(rs[2].fp, so.c)
        o_gp0 == Mult(so.e, sgp.e)
        o_gp == IF so.ii # <<>> \/ sgp.ii # <<>> THEN as_tensor(o_gp0, so.ii \o sgp.ii) ELSE o_gp0
    IN IF ~is_ufl_scalar(f) THEN Raise("Not expecting nonscalar nominator")
       ELSE Ret(o2, Division(Sub(rs[1].fp, o_gp), g), sgp.c)

division(o, rs) ==
    LET f == rs[1].f
        fp == rs[1].fp
        g == rs[2].f
        gp == rs[2].fp
        o2 == reuse_if_possible(o, <<f, g>>)
        so == as_scalar(o2, count)
        sgp == as_scalar(gp, so.c)
        o_gp0 == Mult(so.e, sgp.e)
        o_gp == IF so.ii # <<>> \/ sgp.ii # <<>> THEN as_tensor(o_gp0, so.ii \o sgp.ii) ELSE o_gp0
    IN IF ~is_ufl_scalar(f) THEN Raise("Not expecting nonscalar nominator")
       ELSE IF ~is_true_ufl_scalar(g) THEN Raise("Not expecting nonscalar denominator")
       ELSE Ret(o2, Division(Sub(fp, o_gp), g), sgp.c)

power(o, rs) ==
    LET f == rs[1].f
        fp == rs[1].fp
        g == rs[2].f
        gp == rs[2].fp
        f_g_m1 == Power(f, Sub(g, IntValue(1, <<>>, {})))
        op == Mult(f_g_m1, Add(Mult(fp, g), Mult(Mult(f, Ln(f)), gp)))
    IN IF ~is_true_ufl_scalar(f) THEN Raise("Expecting scalar expression f in f**g.")
       ELSE IF ~is_true_ufl_scalar(g) THEN Raise("Expecting scalar expression g in f**g.")
       ELSE Ret(Mult(f, f_g_m1), op, count)

\* ln, without the assertion
ln_unchecked(o, rs) ==
    Ret(reuse_if_possible(o, <<rs[1].f>>), Division(rs[1].fp, rs[1].f), count)

ln(o, rs) ==
    LET f == rs[1].f
        fp == rs[1].fp
        o2 == reuse_if_possible(o, <<f>>)
    IN IF isZero(f) THEN Raise("Division by zero.")
       ELSE Ret(o2, Division(fp, f), count)

sin(o, rs) ==
    LET f == rs[1].f
        fp == rs[1].fp
    IN Ret(reuse_if_possible(o, <<f>>), Mult(fp, Cos(f)), count)

BesselError == "Differentiation of bessel function w.r.t. nu is not supported."

bessel_j(o, rs) ==
    LET nu == rs[1].f
        dummy == rs[1].fp
        f == rs[2].f
        o2 == reuse_if_possible(o, <<nu, f>>)
    IN IF ~(dummy = None \/ isZero(dummy)) THEN Raise(BesselError)
       ELSE IF IsNought(nu)
       THEN Ret(o2, Neg(Bessel("BesselJ", IntValue(1, <<>>, {}), f)), count)
       ELSE Ret(o2, Mult(Half(1), Sub(Bessel("BesselJ", NuPlus(nu, -1), f),
                                      Bessel("BesselJ", NuPlus(nu, 1), f))), count)

bessel_y(o, rs) ==
    LET nu == rs[1].f
        dummy == rs[1].fp
        f == rs[2].f
        o2 == reuse_if_possible(o, <<nu, f>>)
    IN IF ~(dummy = None \/ isZero(dummy)) THEN Raise(BesselError)
       ELSE IF IsNought(nu)
       THEN Ret(o2, Neg(Bessel("BesselY", IntValue(1, <<>>, {}), f)), count)
       ELSE Ret(o2, Mult(Half(1), Sub(Bessel("BesselY", NuPlus(nu, -1), f),
                                      Bessel("BesselY", NuPlus(nu, 1), f))), count)

bessel_i(o, rs) ==
    LET nu == rs[1].f
        dummy == rs[1].fp
        f == rs[2].f
        o2 == reuse_if_possible(o, <<nu, f>>)
    IN IF ~(dummy = None \/ isZero(dummy)) THEN Raise(BesselError)
       ELSE IF IsNought(nu)
       THEN Ret(o2, Bessel("BesselI", IntValue(1, <<>>, {}), f), count)
       ELSE Ret(o2, Mult(Half(1), Add(Bessel("BesselI", NuPlus(nu, -1), f),
                                      Bessel("BesselI", NuPlus(nu, 1), f))), count)

bessel_k(o, rs) ==
    LET nu == rs[1].f
        dummy == rs[1].fp
        f == rs[2].f
        o2 == reuse_if_possible(o, <<nu, f>>)
    IN IF ~(dummy = None \/ isZero(dummy)) THEN Raise(BesselError)
       ELSE IF IsNought(nu)
       THEN Ret(o2, Neg(Bessel("BesselK", IntValue(1, <<>>, {}), f)), count)
       ELSE Ret(o2, Mult(Half(-1), Add(Bessel("BesselK", NuPlus(nu, -1), f),
                                       Bessel("BesselK", NuPlus(nu, 1), f))), count)

ConditionWarning == "Differentiating a conditional with a condition that depends on the differentiation variable."

binary_condition(o, rs) ==
    LET o2 == reuse_if_possible(o, <<rs[1].f, rs[2].f>>)
    IN RetW(o2, None, count,
            IF \E n \in {1, 2} : ~isZero(rs[n].fp)
            THEN <<Warning(ConditionWarning, o2)>> ELSE <<>>)

not_condition(o, rs) ==
    LET o2 == reuse_if_possible(o, <<rs[1].f>>)
    IN RetW(o2, None, count,
            IF ~isZero(rs[1].fp) THEN <<Warning(ConditionWarning, o2)>> ELSE <<>>)

conditional(o, rs) ==
    LET c == rs[1]
        t == rs[2]
        f == rs[3]
        o2 == reuse_if_possible(o, <<c.f, t.f, f.f>>)
        fi == o2.fi
        fid == subdict(o2.idims, fi)
    IN IF isZero(t.fp) /\ isZero(f.fp)
       THEN Ret(o2, Zero(o2.sh, fi, fid), count)
       ELSE Ret(o2, Conditional(c.f, t.fp, f.fp), count)

derivative(o) == Raise("This should never occur.")

\* The labels whose cached derivative is the very object that visit(f)
\* returned: the pair a Variable rule returns is the cache's pair, and its
\* derivative is the object the visit of the wrapped expression returned.
RECURSIVE Aliases(_, _)
Aliases(f, seen) ==
    LET hit == CacheGet(variable_cache, f.a)
        c == (CHOOSE en \in hit : TRUE).val
    IN IF f.k # "Variable" \/ f.a \in seen \/ hit = {} THEN {}
       ELSE {f.a} \cup (IF self.cls = "VariableAD" /\ f.a = self.variable THEN {}
                        ELSE Aliases(c.f.ops[1], seen \cup {f.a}))

\* ForwardAD.spatial_derivative; rs holds the pair of f once visited.
\* idims is the index dimension map that fp owns, so idims.update writes to
\* fp: to the object in the label cache when fp came from there.
spatial_derivative(o, rs) ==
    LET ii == o.idx
        f == rs[1].f
        fp == rs[1].fp
        o2 == reuse_if_possible(o, <<f>>)
        jx == ii[1]
        new == IsIndex(jx) /\ jx \notin Keys(fp.idims)
        fi == IF new THEN Append(fp.fi, jx) ELSE fp.fi
        idims == IF new THEN Update(fp.idims, {<<jx, self.spatial_dim>>}) ELSE fp.idims
        labels == Aliases(f, {})
        vc == {IF en.key \in labels /\ en.val.fp = fp
               THEN [en EXCEPT !.val.fp.idims = idims] ELSE en : en \in variable_cache}
    IN IF rs = <<>> THEN Call(o.ops[1])
       ELSE IF is_spatially_constant(fp)
       THEN [Ret(o2, Zero(fp.sh, fi, idims), count) EXCEPT
               !.vc = vc,
               !.mut = IF new THEN <<[node |-> fp, idims |-> idims, labels |-> labels]>>
                       ELSE <<>>]
       ELSE Ret(o2, SpatialDerivative(fp, ii, self.spatial_dim), count)

-----------------------------------------------------------------------------
(* class SpatialAD *)

spatial_coordinate(o) ==
    LET k == Index(count)
        I == Identity(self.spatial_dim)
    IN IF o.sh = <<>> THEN Ret(o, IntValue(1, <<>>, {}), count)
       ELSE Ret(o, as_tensor(Indexed(I, <<k, self.index>>), <<k>>), count + 1)

form_argument(o) == Ret(o, SpatialDerivative(o, <<self.index>>, self.spatial_dim), count)

-----------------------------------------------------------------------------
(* class VariableAD *)

VariableAD_variable(o, rs) ==
    LET e == o.ops[1]
        l == o.a
        hit == CacheGet(variable_cache, l)
        ones == make_ones_diff(o)
    IN IF rs = <<>> /\ hit # {} THEN
           LET c == (CHOOSE en \in hit : TRUE).val IN Ret(c.f, c.fp, count)
       ELSE IF rs = <<>> /\ o.a = self.variable THEN
           IF ones.e # "" THEN Raise(ones.e)
           ELSE [Ret(o, ones.fp, ones.c)
                   EXCEPT !.vc = CachePut(variable_cache, l, Pair(o, ones.fp))]
       ELSE IF rs = <<>> THEN Call(e)
       ELSE LET o2 == IF rs[1].f # e THEN [o EXCEPT !.ops = <<rs[1].f>>] ELSE o
                c == Pair(o2, rs[1].fp)
            IN [Ret(o2, rs[1].fp, count) EXCEPT !.vc = CachePut(variable_cache, l, c)]

-----------------------------------------------------------------------------
(* class CoefficientAD *)

\* oi[:-rv] and oi[-rv:]
SliceTo(oi, rv) == IF rv = 0 THEN <<>> ELSE SubSeq(oi, 1, Len(oi) - rv)
SliceFrom(oi, rv) ==
    IF rv = 0 \/ rv >= Len(oi) THEN oi ELSE SubSeq(oi, Len(oi) - rv + 1, Len(oi))

Min(a, b) == IF a < b THEN a ELSE b

\* The loop over zip(oprimes, self._v) from entry n on.
RECURSIVE CoefficientLoop(_, _, _, _)
CoefficientLoop(oprimes, n, oprimesum, c) ==
    IF n > Min(Len(oprimes), Len(self.v)) THEN [fp |-> oprimesum, c |-> c]
    ELSE LET v == self.v[n]
             s == as_scalar(oprimes[n], c)
             rv == Len(v.sh)
             oi1 == SliceTo(s.ii, rv)
             oi2 == SliceFrom(s.ii, rv)
             prod == Mult(s.e, Indexed(v, oi2))
         IN CoefficientLoop(oprimes, n + 1,
                IF oi1 # <<>> THEN Add(oprimesum, as_tensor(prod, oi1))
                ELSE Add(oprimesum, prod),
                s.c)

coefficient(o) ==
    LET among == {n \in DOMAIN self.w : self.w[n] = o}
        first == CHOOSE n \in among : \A m \in among : n <= m
        found == {en \in self.cd : en.key = o}
        entry == CHOOSE en \in found : TRUE
        res == CoefficientLoop(entry.val, 1, Zero(o.sh, <<>>, {}), count)
    IN IF among # {} THEN Ret(self.w[first], self.v[first], count)
       ELSE IF found = {} THEN
           RetW(o, Zero(o.sh, <<>>, {}), count,
                IF self.cd # {} THEN <<Warning("Assuming derivative is zero.", o)>> ELSE <<>>)
       ELSE IF ~entry.tuple /\ Len(entry.val) # Len(self.v)
           THEN Raise("Got a tuple of arguments, expecting a matching tuple of coefficient derivatives.")
       ELSE Ret(o, res.fp, res.c)

CoefficientAD_variable(o, rs) ==
    LET e == o.ops[1]
        l == o.a
        hit == CacheGet(variable_cache, l)
    IN IF rs = <<>> /\ hit # {} THEN
           LET c == (CHOOSE en \in hit : TRUE).val IN Ret(c.f, c.fp, count)
       ELSE IF rs = <<>> THEN Call(e)
       ELSE LET o2 == reuse_if_possible(o, <<rs[1].f>>)
                c == Pair(o2, rs[1].fp)
            IN [Ret(o2, rs[1].fp, count) EXCEPT !.vc = CachePut(variable_cache, l, c)]

-----------------------------------------------------------------------------
(* Input expressions of a run in spatial dimension d *)

i == Index(0)
j == Index(1)

Terminal(k, sh, a) == Mk(k, <<>>, sh, <<>>, {}, a, <<>>)
Coefficient(c, sh) == Terminal("Coefficient", sh, c)
Argument(c, sh) == Terminal("Argument", sh, c)
Variable(e, l) == Mk("Variable", <<e>>, e.sh, e.fi, e.idims, l, <<>>)
LT(a, b) == Mk("LT", <<a, b>>, <<>>, <<>>, {}, 0, <<>>)
NotCondition(c) == Mk("NotCondition", <<c>>, <<>>, <<>>, {}, 0, <<>>)
Determinant(A) == Mk("Determinant", <<A>>, <<>>, A.fi, A.idims, 0, <<>>)
Sum(ops) == Mk("Sum", ops, ops[1].sh, ops[1].fi, ops[1].idims, 0, <<>>)
NewProduct(ops) == Mk("Product", ops, ConcatSh(ops), unique_indices(ConcatFi(ops)),
                      UnionDims(ops), 0, <<>>)
NewDivision(a, b) == Mk("Division", <<a, b>>, a.sh, unique_indices(a.fi \o b.fi),
                        a.idims \cup b.idims, 0, <<>>)

two == IntValue(2, <<>>, {})
zero == Zero(<<>>, <<>>, {})
u == Coefficient(0, <<>>)
u2 == Coefficient(3, <<>>)
g == Coefficient(1, <<>>)
h == Coefficient(2, <<>>)
x(d) == Terminal("SpatialCoordinate", IF d = 1 THEN <<>> ELSE <<d>>, 0)
n(d) == Terminal("FacetNormal", <<d>>, 0)
\* a scalar built from the spatial coordinate
xs(d) == IF d = 1 THEN x(d) ELSE Indexed(x(d), <<FixedIndex(0)>>)
ni(d) == Indexed(n(d), <<i>>)
\* v[k]*v[k] summed over k, v the spatial coordinate (the facet normal when
\* the coordinate is a scalar)
vv(d) == IF d = 1 THEN n(d) ELSE x(d)
nn(d, k) == IndexSum(NewProduct(<<Indexed(vv(d), <<k>>), Indexed(vv(d), <<k>>)>>), <<k>>)

Labels == 1..3

S0(d) == {two, zero, u, g, h, xs(d), ni(d)}
V0(d) == IF d = 1 THEN {n(d)} ELSE {n(d), x(d)}
N0(d) == {two, u, xs(d)}

Tuples(S) == UNION {[1..m -> S] : m \in 2..MaxOps}

L1(d) ==
    {Ln(s) : s \in S0(d)} \cup {Sin(s) : s \in S0(d)} \cup {Determinant(s) : s \in S0(d)}
    \cup {NewDivision(a, b) : a \in S0(d) \cup V0(d), b \in S0(d)}
    \cup {NewDivision(two, b) : b \in V0(d)}
    \cup {Power(a, b) : a, b \in S0(d)}
    \cup {Power(a, two) : a \in V0(d)} \cup {Power(two, b) : b \in V0(d)}
    \cup {LT(a, b) : a, b \in S0(d)}
    \cup {Sum(ops) : ops \in Tuples(N0(d))}
    \cup {NewProduct(ops) : ops \in Tuples(N0(d))}
    \cup {Variable(e, l) : e \in S0(d) \cup V0(d), l \in Labels}
    \cup {Indexed(v, <<k>>) : v \in V0(d), k \in {FixedIndex(0), i, j}}
    \cup {nn(d, i), nn(d, j)}

M1(d) ==
    {two, u, Sin(u), Sin(xs(d)), Ln(zero), Determinant(u), Power(u, two),
     Variable(u, 1), Variable(two, 1), Variable(xs(d), 3), Variable(h, 3),
     Indexed(Variable(n(d), 2), <<FixedIndex(0)>>), nn(d, i), nn(d, j)}

M2(d) == {two, Sin(u), Variable(u, 1), Variable(two, 1), Determinant(u), nn(d, i),
          Indexed(Variable(n(d), 2), <<FixedIndex(0)>>)}

C0(d) == {LT(a, b) : a, b \in {two, u, xs(d)}}
CondsUnderTest(d) == {LT(two, two), LT(u, xs(d)), NotCondition(LT(two, two)), NotCondition(LT(u, xs(d)))}
Conds(d) == C0(d) \cup {NotCondition(c) : c \in C0(d)}

L2(d) ==
    {Sum(<<a, b>>) : a \in M1(d), b \in M2(d)}
    \cup {NewProduct(<<a, b>>) : a \in M1(d), b \in M2(d)}
    \cup {NewDivision(a, b) : a \in M1(d), b \in M2(d)}
    \cup {Power(a, b) : a, b \in M2(d)}
    \cup {LT(a, b) : a, b \in M2(d)}
    \cup {Ln(a) : a \in M1(d)} \cup {Sin(a) : a \in M1(d)}
    \cup {Variable(e, l) : e \in M1(d), l \in Labels}
    \cup {NotCondition(c) : c \in Conds(d)}
    \cup {Conditional(c, t, f) : c \in CondsUnderTest(d), t, f \in {two, u, xs(d), ni(d)}}

Exprs(d) == S0(d) \cup V0(d) \cup L1(d) \cup L2(d)

-----------------------------------------------------------------------------
(* The algorithm objects *)

\* ForwardAD.__init__ and the constructors of the three subclasses
ForwardAD(cls, spatial_dim, var_shape, var_free_indices, var_index_dimensions) ==
    [cls |-> cls, spatial_dim |-> spatial_dim, var_shape |-> var_shape,
     var_free_indices |-> var_free_indices,
     var_index_dimensions |-> var_index_dimensions,
     index |-> FixedIndex(0), variable |-> 0, w |-> <<>>, v |-> <<>>, cd |-> {}]

SpatialAD(spatial_dim, index) ==
    [ForwardAD("SpatialAD", spatial_dim, <<>>,
               IF IsIndex(index) THEN <<index>> ELSE <<>>,
               IF IsIndex(index) THEN {<<index, spatial_dim>>} ELSE {})
       EXCEPT !.index = index]

VariableAD(spatial_dim, var) ==
    [ForwardAD("VariableAD", spatial_dim, var.sh, var.fi, var.idims)
       EXCEPT !.variable = var.a]

CoefficientAD(spatial_dim, coefficients, arguments, coefficient_derivatives) ==
    [ForwardAD("CoefficientAD", spatial_dim, <<>>, <<>>, {})
       EXCEPT !.w = coefficients, !.v = arguments, !.cd = coefficient_derivatives]

Entry(key, val, tuple) == [key |-> key, val |-> val, tuple |-> tuple]
du == Argument(0, <<>>)
du2 == Argument(1, <<>>)
dg == Coefficient(4, <<>>)
dg2 == Coefficient(5, <<>>)

Algs(d) ==
    {SpatialAD(d, FixedIndex(m)) : m \in 0..(d - 1)} \cup {SpatialAD(d, i)}
    \cup {VariableAD(d, Variable(u, 1)), VariableAD(d, Variable(n(d), 2))}
    \cup {CoefficientAD(d, <<u>>, <<du>>, {}),
          CoefficientAD(d, <<u>>, <<du>>, {Entry(g, <<dg>>, FALSE)}),
          CoefficientAD(d, <<u, u2>>, <<du, du2>>, {Entry(g, <<dg>>, FALSE)}),
          CoefficientAD(d, <<u, u2>>, <<du, du2>>, {Entry(g, <<dg, dg2>>, TRUE)})}

-----------------------------------------------------------------------------
(* Transformer.visit *)

Handler(o) ==
    CASE o.k \in {"IntValue", "Zero", "FacetNormal", "Identity", "Argument"} -> "terminal"
      [] o.k = "SpatialCoordinate" ->
            IF self.cls = "SpatialAD" THEN "spatial_coordinate" ELSE "terminal"
      [] o.k = "Coefficient" ->
            IF self.cls = "SpatialAD" THEN "form_argument"
            ELSE IF self.cls = "CoefficientAD" THEN "coefficient" ELSE "terminal"
      [] o.k = "Variable" ->
            IF self.cls = "VariableAD" THEN "VariableAD_variable"
            ELSE IF self.cls = "CoefficientAD" THEN "CoefficientAD_variable" ELSE "variable"
      [] o.k = "Indexed" -> "indexed"
      [] o.k = "IndexSum" -> "index_sum"
      [] o.k = "Sum" -> "sum"
      [] o.k = "Product" -> "product"
      [] o.k = "Division" -> "division"
      [] o.k = "Power" -> "power"
      [] o.k = "Ln" -> "ln"
      [] o.k = "Sin" -> "sin"
      [] o.k = "BesselJ" -> "bessel_j"
      [] o.k = "BesselY" -> "bessel_y"
      [] o.k = "BesselI" -> "bessel_i"
      [] o.k = "BesselK" -> "bessel_k"
      [] o.k = "SpatialDerivative" -> "spatial_derivative"
      [] o.k \in {"VariableDerivative", "CoefficientDerivative"} -> "derivative"
      [] o.k = "LT" -> "binary_condition"
      [] o.k = "NotCondition" -> "not_condition"
      [] o.k = "Conditional" -> "conditional"
      [] OTHER -> "expr"

\* The handlers that take the visited operands as arguments.
ChildrenFirst == {"sum", "product", "division", "power", "ln", "sin",
                  "bessel_j", "bessel_y", "bessel_i", "bessel_k",
                  "binary_condition", "not_condition", "conditional"}

Frame(o) == [o |-> o, rs |-> <<>>]
Top == stack[Len(stack)]

Ready(hname) ==
    /\ status = "running"
    /\ stack # <<>>
    /\ Handler(Top.o) = hname
    /\ hname \in ChildrenFirst => Len(Top.rs) = Len(Top.o.ops)

Ended(out) == [o |-> Top.o, h |-> Handler(Top.o), rs |-> Top.rs, r |-> out.r,
               e |-> out.e, c0 |-> count, vc0 |-> variable_cache, w |-> out.w]

\* The pairs the callers on the stack hold after the writes mut: a pair that
\* a Variable rule returned for a written label holds the written object.
WrittenPair(p, mut) ==
    IF mut # <<>> /\ p.f.k = "Variable" /\ p.f.a \in mut[1].labels /\ p.fp = mut[1].node
    THEN [p EXCEPT !.fp.idims = mut[1].idims] ELSE p
Written(frames, mut) ==
    [m \in DOMAIN frames |->
        [frames[m] EXCEPT !.rs = [k \in DOMAIN frames[m].rs |-> WrittenPair(frames[m].rs[k], mut)]]]

\* The handler call on top of the stack calls visit, raises or returns.
Step(out) ==
    IF out.call # None THEN
        /\ stack' = Append(stack, Frame(out.call))
        /\ wrapped' = IF Top.o.k = "Variable" THEN wrapped (+) SetToBag({Top.o.a}) ELSE wrapped
        /\ UNCHANGED <<self, root, status, err, result, variable_cache, cache, count,
                       warnings, last, returned, evals, mutations>>
    ELSE IF out.e # "" THEN
        /\ status' = "error"
        /\ err' = out.e
        /\ stack' = <<>>
        /\ last' = Ended(out)
        /\ evals' = evals (+) SetToBag({Top.o})
        /\ UNCHANGED <<self, root, result, variable_cache, cache, count, warnings,
                       returned, wrapped, mutations>>
    ELSE
        /\ IF Len(stack) = 1
           THEN /\ status' = "done"
                /\ result' = out.r
                /\ stack' = <<>>
           ELSE /\ stack' = [Written(SubSeq(stack, 1, Len(stack) - 1), out.mut) EXCEPT
                               ![Len(stack) - 1].rs = Append(@, out.r)]
                /\ UNCHANGED <<status, result>>
        /\ variable_cache' = out.vc
        /\ count' = out.c
        /\ warnings' = warnings \o out.w
        /\ last' = Ended(out)
        /\ returned' = {WrittenPair(p, out.mut) : p \in returned} \cup {out.r}
        /\ evals' = evals (+) SetToBag({Top.o})
        /\ mutations' = mutations \o out.mut
        /\ UNCHANGED <<self, root, err, cache, wrapped>>

\* r = h(o, *map(self.visit, o.operands())): visit the next operand
visit_operands ==
    /\ status = "running"
    /\ stack # <<>>
    /\ Handler(Top.o) \in ChildrenFirst
    /\ Len(Top.rs) < Len(Top.o.ops)
    /\ stack' = Append(stack, Frame(Top.o.ops[Len(Top.rs) + 1]))
    /\ UNCHANGED <<self, root, status, err, result, variable_cache, cache, count,
                   warnings, last, returned, evals, wrapped, mutations>>

visit_expr == Ready("expr") /\ Step(expr(Top.o))
visit_terminal == Ready("terminal") /\ Step(terminal(Top.o))
visit_variable == Ready("variable") /\ Step(variable(Top.o, Top.rs))
visit_indexed == Ready("indexed") /\ Step(indexed(Top.o, Top.rs))
visit_index_sum == Ready("index_sum") /\ Step(index_sum(Top.o, Top.rs))
visit_sum == Ready("sum") /\ Step(sum(Top.o, Top.rs))
visit_product == Ready("product") /\ Step(product(Top.o, Top.rs))
visit_division == Ready("division") /\ Step(division(Top.o, Top.rs))
visit_power == Ready("power") /\ Step(power(Top.o, Top.rs))
visit_ln == Ready("ln") /\ Step(ln(Top.o, Top.rs))
visit_sin == Ready("sin") /\ Step(sin(Top.o, Top.rs))
visit_bessel_j == Ready("bessel_j") /\ Step(bessel_j(Top.o, Top.rs))
visit_bessel_y == Ready("bessel_y") /\ Step(bessel_y(Top.o, Top.rs))
visit_bessel_i == Ready("bessel_i") /\ Step(bessel_i(Top.o, Top.rs))
visit_bessel_k == Ready("bessel_k") /\ Step(bessel_k(Top.o, Top.rs))
visit_derivative == Ready("derivative") /\ Step(derivative(Top.o))
visit_spatial_derivative ==
    Ready("spatial_derivative") /\ Step(spatial_derivative(Top.o, Top.rs))
visit_binary_condition == Ready("binary_condition") /\ Step(binary_condition(Top.o, Top.rs))
visit_not_condition == Ready("not_condition") /\ Step(not_condition(Top.o, Top.rs))
visit_conditional == Ready("conditional") /\ Step(conditional(Top.o, Top.rs))
visit_spatial_coordinate == Ready("spatial_coordinate") /\ Step(spatial_coordinate(Top.o))
visit_form_argument == Ready("form_argument") /\ Step(form_argument(Top.o))
visit_VariableAD_variable ==
    Ready("VariableAD_variable") /\ Step(VariableAD_variable(Top.o, Top.rs))
visit_coefficient == Ready("coefficient") /\ Step(coefficient(Top.o))
visit_CoefficientAD_variable ==
    Ready("CoefficientAD_variable") /\ Step(CoefficientAD_variable(Top.o, Top.rs))

\* Runs on top of Algs(d) \X Exprs(d): a Variable target of rank 2, and a
\* second Variable of the target's label with another shape.
TargetRuns(d) ==
    LET V2 == Variable(Identity(d), 3)
        Vn == Variable(n(d), 2)
    IN {<<VariableAD(d, V2), V2>>,
        <<VariableAD(d, V2), Variable(n(d), 3)>>,
        <<VariableAD(d, Vn), NewProduct(<<Indexed(Vn, <<FixedIndex(0)>>), Variable(u, 2)>>)>>,
        <<VariableAD(d, Vn), Sum(<<Variable(u, 1), Variable(xs(d), 1)>>)>>}

\* Bessel functions of order 0, 1, 2 and of an order that is a coefficient
BesselNames == {"BesselJ", "BesselY", "BesselI", "BesselK"}
BesselExprs(d) ==
    {Bessel(name, nu, f) : name \in BesselNames,
                           nu \in {zero, IntValue(0, <<>>, {}), IntValue(1, <<>>, {}), two, u},
                           f \in {two, u, xs(d), Sin(u), Variable(u, 1)}}

\* Derivative markers inside the expression: spatial derivatives of
\* constants, coefficients, coordinates and Variables, one Variable under
\* two spatial derivatives, and the other two kinds of marker
MarkerExprs(d) ==
    LET V == Variable(two, 1)
        W == Variable(u, 1)
        F == {two, u, xs(d), ni(d), V, W, Variable(V, 2), Sin(u)}
        K == {<<i>>, <<j>>, <<FixedIndex(0)>>}
    IN {SpatialDerivative(f, ii, d) : f \in F, ii \in K}
       \cup {SpatialDerivative(SpatialDerivative(f, <<i>>, d), <<j>>, d) : f \in {two, u}}
       \cup {Sum(<<SpatialDerivative(v, <<j>>, d), SpatialDerivative(v, <<j>>, d)>>) : v \in {V, W}}
       \cup {NewProduct(<<v, SpatialDerivative(v, <<j>>, d)>>) : v \in {V, W}}
       \cup {DerivativeMarker(name, f) : name \in {"VariableDerivative", "CoefficientDerivative"},
                                         f \in {two, u}}
       \cup {Sum(<<u, DerivativeMarker("VariableDerivative", u)>>)}

\* Tables whose entry for g is a tuple with fewer or more expressions than
\* there are directions
TableRuns(d) ==
    {CoefficientAD(d, <<u, u2>>, <<du, du2>>, {Entry(g, <<dg>>, TRUE)}),
     CoefficientAD(d, <<u>>, <<du>>, {Entry(g, <<dg, dg2>>, TRUE)}),
     CoefficientAD(d, <<u>>, <<du>>, {Entry(g, <<dg>>, TRUE)})}
    \X {g, Sin(g), Sum(<<u, g>>)}

Runs(d) ==
    (Algs(d) \X (Exprs(d) \cup BesselExprs(d) \cup MarkerExprs(d)))
    \cup TargetRuns(d) \cup TableRuns(d)

Init ==
    \E d \in 1..Dim : \E run \in Runs(d) :
        /\ self = run[1]
        /\ root = run[2]
        /\ stack = <<Frame(root)>>
        /\ status = "running"
        /\ err = ""
        /\ result = NoPair
        /\ variable_cache = {}
        /\ cache = {}
        /\ count = 2
        /\ warnings = <<>>
        /\ last = [o |-> None, h |-> "", rs |-> <<>>, r |-> NoPair, e |-> "",
                   c0 |-> 2, vc0 |-> {}, w |-> <<>>]
        /\ returned = {}
        /\ evals = EmptyBag
        /\ wrapped = EmptyBag
        /\ mutations = <<>>

Next ==
    \/ visit_operands
    \/ visit_expr
    \/ visit_terminal
    \/ visit_variable
    \/ visit_indexed
    \/ visit_index_sum
    \/ visit_sum
    \/ visit_product
    \/ visit_division
    \/ visit_power
    \/ visit_ln
    \/ visit_sin
    \/ visit_bessel_j
    \/ visit_bessel_y
    \/ visit_bessel_i
    \/ visit_bessel_k
    \/ visit_derivative
    \/ visit_spatial_derivative
    \/ visit_binary_condition
    \/ visit_not_condition
    \/ visit_conditional
    \/ visit_spatial_coordinate
    \/ visit_form_argument
    \/ visit_VariableAD_variable
    \/ visit_coefficient
    \/ visit_CoefficientAD_variable

Spec == Init /\ [][Next]_vars

-----------------------------------------------------------------------------
(* Properties *)

NoDup(s) == \A a, b \in DOMAIN s : s[a] = s[b] => a = b

\* fp has the signature of a derivative of o
SigOK(o, fp) ==
    /\ fp.sh = o.sh \o self.var_shape
    /\ SeqToSet(fp.fi) = SeqToSet(o.fi) \cup SeqToSet(self.var_free_indices)
    /\ NoDup(fp.fi)
    /\ fp.idims = Update(o.idims, self.var_index_dimensions)

\* a handler call has just returned
Returned(hname) == last.h = hname /\ last.e = ""
\* a handler call has just raised
Raised(hname) == last.h = hname /\ last.e # ""

\* C1: the derivative every rule returns for a node o has shape
\* shape(o) + var_shape, free indices free_indices(o) united with
\* var_free_indices without duplicates, and o's index dimensions extended
\* with those of the differentiation variable.
C1_DerivativeSignature ==
    (last.h # "" /\ last.e = "" /\ last.h \notin {"binary_condition", "not_condition"})
        => SigOK(last.o, last.r.fp)


\* C2: within one run the rule of each distinct node is evaluated exactly
\* once, a second visit of a shared node being answered from the cache.
C2_EvaluatedOnce ==
    \A o \in BagToSet(evals) :
        CopiesIn(o, evals) = 1

RECURSIVE SelfNested(_, _)
\* a Variable labelled l occurs in e below a Variable labelled l (under says
\* that e lies in the wrapped expression of one)
SelfNested(e, under) ==
    \E l \in Labels :
        \/ e.k = "Variable" /\ e.a = l /\ l \in under
        \/ \E m \in DOMAIN e.ops :
               SelfNested(e.ops[m], IF e.k = "Variable" THEN under \cup {e.a} ELSE under)

VariablePairs(l) == {p \in returned : p.f.k = "Variable" /\ p.f.a = l}
VariableHandlers == {"variable", "VariableAD_variable", "CoefficientAD_variable"}

Collides(o) == self.var_free_indices # <<>> /\ o.idx[1] \in SeqToSet(self.var_free_indices)

\* C4: an index sum over an index of the differentiation variable raises the
\* index scope collision before its summand is visited and the run returns
\* nothing; any other index sum raises no collision and returns
\* IndexSum(derivative of the summand, i).
C4_IndexSum ==
    /\ (last.h = "index_sum" /\ Collides(last.o)) =>
          /\ last.e = "Index scope collision."
          /\ last.rs = <<>>
          /\ status = "error"
          /\ err = last.e
          /\ result = NoPair
    /\ (last.h = "index_sum" /\ ~Collides(last.o)) =>
          /\ last.e = ""
          /\ Len(last.rs) = 1
          /\ last.r.fp = IndexSum(last.rs[1].fp, last.o.idx)
          /\ last.r.f.k = "IndexSum"
    /\ err = "Index scope collision." => last.h = "index_sum" /\ Collides(last.o)

C4_Witness ==
    /\ last.h = "index_sum"
    /\ Collides(last.o)
    /\ status = "error"
    /\ root # last.o

\* the other case of C4: an index sum that does not collide has returned
C4_WitnessNoCollision ==
    last.h = "index_sum" /\ ~Collides(last.o) /\ last.e = "" /\ ~isZero(last.r.fp)

AssumedZero(o) ==
    SelectSeq(warnings, LAMBDA wn : wn.msg = "Assuming derivative is zero." /\ wn.o = o)

\* C5: a CoefficientAD run that visits a coefficient which is neither
\* differentiated nor in the table gives it a Zero of its shape and warns
\* about it exactly once.
C5_OneWarning ==
    (status = "done" /\ self.cls = "CoefficientAD") =>
        \A o \in BagToSet(evals) :
            (o.k = "Coefficient" /\ o \notin SeqToSet(self.w)
                /\ o \notin {en.key : en \in self.cd}) =>
                    /\ Len(AssumedZero(o)) = 1
                    /\ Pair(o, Zero(o.sh, <<>>, {})) \in returned

RECURSIVE RankSum(_, _)
\* the ranks of the first k of dops, added up
RankSum(dops, k) == IF k = 0 THEN 0 ELSE Len(dops[k].sh) + RankSum(dops, k - 1)

\* the product with operand k replaced by its derivative, the derivative
\* indexed by fresh indices that the product is made a tensor over again
ProductTerm(ops, dops, k, c0) ==
    LET ii == indices(Len(dops[k].sh), c0 + RankSum(dops, k - 1))
        dk == IF ii = <<>> THEN dops[k] ELSE Indexed(dops[k], ii)
        p == Product([ops EXCEPT ![k] = dk])
    IN IF ii = <<>> THEN p ELSE ComponentTensor(p, ii)

RECURSIVE LeftSum(_)
LeftSum(ts) ==
    IF Len(ts) = 1 THEN ts[1]
    ELSE Sum(<<LeftSum(SubSeq(ts, 1, Len(ts) - 1)), ts[Len(ts)]>>)

ProductTerms(rs, c0) == [k \in DOMAIN rs |-> ProductTerm(Firsts(rs), Seconds(rs), k, c0)]
NonZero(ts) == SelectSeq(ts, LAMBDA t : ~isZero(t))

\* C6: the derivative of a Product of N operands is the sum of N terms, the
\* k-th the product with operand k replaced by its derivative and the others
\* in place (terms that are Zero leave the sum); for two scalars f, g it is
\* fp*g + f*gp.
C6_ProductRule ==
    Returned("product") =>
        LET ts == ProductTerms(last.rs, last.c0)
        IN /\ Len(ts) = Len(last.o.ops)
           /\ last.r.fp = IF NonZero(ts) = <<>> THEN ts[Len(ts)] ELSE LeftSum(NonZero(ts))
           /\ (Len(ts) = 2 /\ NonZero(ts) = ts /\ \A k \in 1..2 : last.rs[k].fp.sh = <<>>) =>
                 last.r.fp = Sum(<<Product(<<last.rs[1].fp, last.rs[2].f>>),
                                   Product(<<last.rs[1].f, last.rs[2].fp>>)>>)

\* two terms are not Zero and a derivative was scalarized
C6_Witness ==
    /\ Returned("product")
    /\ Len(NonZero(ProductTerms(last.rs, last.c0))) >= 2
    /\ \E k \in DOMAIN last.rs : last.rs[k].fp.sh # <<>>

\* the two scalar case fp*g + f*gp
C6_WitnessScalars ==
    /\ Returned("product")
    /\ Len(last.rs) = 2
    /\ NonZero(ProductTerms(last.rs, last.c0)) = ProductTerms(last.rs, last.c0)
    /\ \A k \in 1..2 : last.rs[k].fp.sh = <<>>

RECURSIVE Contains(_)
\* e contains a node whose class has no handler
Contains(e) == Handler(e) = "expr" \/ \E m \in DOMAIN e.ops : Contains(e.ops[m])

RECURSIVE Exposed(_)
\* e contains such a node outside the expression of every Variable
Exposed(e) ==
    Handler(e) = "expr" \/ (e.k # "Variable" /\ \E m \in DOMAIN e.ops : Exposed(e.ops[m]))

\* C7 as stated: no run over an expression that contains a node without a
\* rule returns a derivative.
C7_ContainsAborts == status = "done" => ~Contains(root)

\* C7, amended: the visit of a node without a rule aborts the whole run with
\* the missing rule error and nothing is returned; a run over an expression
\* with such a node outside the expression of every Variable never returns.
C7_MissingRule ==
    /\ last.h = "expr" =>
          /\ last.e = "Missing ForwardAD handler"
          /\ status = "error"
          /\ err = last.e
          /\ stack = <<>>
          /\ result = NoPair
    /\ status = "done" =>
          /\ ~Exposed(root)
          /\ \A o \in BagToSet(evals) : Handler(o) # "expr"
          /\ err = ""
    /\ status = "error" => result = NoPair

\* a node without a rule below the root has aborted the run
C7_Witness ==
    /\ last.h = "expr"
    /\ status = "error"
    /\ last.o # root
    /\ returned # {}

\* C8: ln raises the division by zero assertion when the primal of its
\* argument is a Zero node, and returns (ln(f), fp/f) otherwise.
C8_Ln ==
    last.h = "ln" =>
        IF isZero(last.rs[1].f)
        THEN last.e = "Division by zero." /\ status = "error" /\ err = last.e
             /\ result = NoPair
        ELSE /\ last.e = ""
             /\ last.r.f.k = "Ln"
             /\ last.r.f.ops = <<last.rs[1].f>>
             /\ last.r.fp = Division(last.rs[1].fp, last.rs[1].f)

C8_Witness == last.h = "ln" /\ isZero(last.rs[1].f) /\ status = "error"

\* the other case of C8: ln of a primal that is not Zero has returned
C8_WitnessReturns == last.h = "ln" /\ last.e = "" /\ ~isZero(last.r.fp)

RECURSIVE DependsOnVariable(_)
\* an operand of the comparison below the condition c got a derivative that
\* is not Zero
DependsOnVariable(c) ==
    IF c.k = "NotCondition" THEN DependsOnVariable(c.ops[1])
    ELSE \E m \in DOMAIN c.ops : \E p \in returned : p.f = c.ops[m] /\ ~isZero(p.fp)

\* C9: a condition aborts nothing, is not differentiated, and warns exactly
\* when an operand of its comparison has a derivative that is not Zero.
C9_ConditionWarning ==
    last.h \in {"binary_condition", "not_condition"} =>
        /\ last.e = ""
        /\ last.r.fp = None
        /\ last.w # <<>> <=> DependsOnVariable(last.r.f)

\* (f/g)*gp as the division rule builds it
QuotientTimes(o2, gp, c0) ==
    LET ii == indices(Len(gp.sh), c0)
    IN IF ii = <<>> THEN Mult(o2, gp)
       ELSE ComponentTensor(Mult(o2, Indexed(gp, ii)), ii)

\* C10: division raises when its numerator is not scalar valued or its
\* denominator not a true scalar and power when its base or exponent is not
\* a true scalar; otherwise they return (fp - (f/g)*gp)/g and
\* f**(g-1)*(fp*g + f*ln(f)*gp).
C10_DivisionPower ==
    /\ last.h = "division" =>
          LET num == last.rs[1].f
              den == last.rs[2].f
          IN IF ~(num.sh = <<>>) \/ ~(den.sh = <<>> /\ den.fi = <<>>)
             THEN /\ last.e \in {"Not expecting nonscalar nominator",
                                 "Not expecting nonscalar denominator"}
                  /\ status = "error"
                  /\ result = NoPair
             ELSE /\ last.e = ""
                  /\ last.r.f.k = "Division"
                  /\ last.r.f.ops = <<num, den>>
                  /\ last.r.fp = Division(Add(last.rs[1].fp,
                                              Neg(QuotientTimes(last.r.f, last.rs[2].fp, last.c0))), den)
    /\ last.h = "power" =>
          LET base == last.rs[1].f
              expo == last.rs[2].f
              one == IntValue(1, <<>>, {})
          IN IF ~(base.sh = <<>> /\ base.fi = <<>>) \/ ~(expo.sh = <<>> /\ expo.fi = <<>>)
             THEN /\ last.e \in {"Expecting scalar expression f in f**g.",
                                 "Expecting scalar expression g in f**g."}
                  /\ status = "error"
                  /\ result = NoPair
             ELSE /\ last.e = ""
                  /\ last.r.fp = Mult(Power(base, Sub(expo, one)),
                                      Add(Mult(last.rs[1].fp, expo),
                                          Mult(Mult(base, Ln(base)), last.rs[2].fp)))

\* a denominator with a free index has made division raise
C10_Witness ==
    /\ last.h = "division"
    /\ last.rs[1].f.sh = <<>>
    /\ last.rs[2].f.fi # <<>>
    /\ status = "error"

C10_WitnessNumerator == last.h = "division" /\ last.rs[1].f.sh # <<>> /\ status = "error"
C10_WitnessPower == last.h = "power" /\ status = "error"
C10_WitnessReturns ==
    /\ last.h = "division" /\ last.e = "" /\ ~isZero(last.rs[2].fp) /\ ~isZero(last.rs[1].fp)
C10_WitnessPowerReturns ==
    /\ last.h = "power" /\ last.e = "" /\ ~isZero(last.rs[2].fp) /\ ~isZero(last.rs[1].fp)

\* the identity of a target of shape sh (rank 0, 1 or 2) without free
\* indices, built with the indices c, c+1, ...
Ones(o, c) ==
    LET sh == o.sh
        d1 == Indexed(Identity(sh[1]), <<Index(c), Index(c + 1)>>)
        d2 == Indexed(Identity(sh[2]), <<Index(c + 2), Index(c + 3)>>)
    IN IF sh = <<>> THEN IntValue(1, o.fi, o.idims)
       ELSE IF Len(sh) = 1 THEN ComponentTensor(d1, <<Index(c), Index(c + 1)>>)
       ELSE ComponentTensor(Product(<<d1, d2>>),
                            <<Index(c), Index(c + 2), Index(c + 1), Index(c + 3)>>)

ShapeAssertion == "This is only used by VariableDerivative, yes?"

\* C11 as stated: every visit of a Variable of the target's label gives the
\* identity of the target's shape, or raises when the shapes differ; every
\* visit of another label gives the derivative of its wrapped expression.
C11_TargetVariableAlways ==
    last.h = "VariableAD_variable" =>
        IF last.o.a = self.variable
        THEN IF last.o.sh # self.var_shape
             THEN last.e = ShapeAssertion /\ status = "error"
             ELSE last.e = "" /\ last.r.fp.sh = self.var_shape \o self.var_shape
        ELSE /\ last.e = ""
             /\ last.rs # <<>> => last.r.fp = last.rs[1].fp

\* C11, amended: a visit of a Variable whose label the label cache does not
\* hold gives, for the target's label, the identity of the target's shape
\* (and raises when the shapes differ) and, for another label, the
\* derivative of its wrapped expression; a visit of a label the cache holds
\* returns the cached pair, whatever the shape of the Variable.
C11_TargetVariable ==
    last.h = "VariableAD_variable" =>
        LET hit == CacheGet(last.vc0, last.o.a)
        IN IF last.rs # <<>>
           THEN /\ last.o.a # self.variable
                /\ last.e = ""
                /\ last.r.fp = last.rs[1].fp
                /\ last.r.f.ops = <<last.rs[1].f>>
           ELSE IF hit # {}
           THEN last.e = "" /\ hit = {[key |-> last.o.a, val |-> last.r]}
           ELSE /\ last.o.a = self.variable
                /\ IF last.o.sh # self.var_shape
                   THEN /\ last.e = ShapeAssertion
                        /\ status = "error"
                        /\ result = NoPair
                   ELSE /\ last.e = ""
                        /\ last.r.f = last.o
                        /\ last.r.fp = Ones(last.o, last.c0)
                        /\ last.r.fp.sh = self.var_shape \o self.var_shape

\* the identity of a target of rank 2 has been returned
C11_Witness ==
    /\ last.h = "VariableAD_variable"
    /\ last.o.a = self.variable
    /\ Len(last.o.sh) = 2
    /\ last.e = ""
    /\ ~isZero(last.r.fp)

C11_WitnessVector ==
    last.h = "VariableAD_variable" /\ last.o.a = self.variable /\ Len(last.o.sh) = 1 /\ last.e = ""
C11_WitnessScalar ==
    last.h = "VariableAD_variable" /\ last.o.a = self.variable /\ last.o.sh = <<>> /\ last.e = ""
C11_WitnessRaises ==
    last.h = "VariableAD_variable" /\ last.e = ShapeAssertion /\ status = "error"
C11_WitnessOther ==
    last.h = "VariableAD_variable" /\ last.rs # <<>> /\ ~isZero(last.r.fp)

BesselHandlers == {"bessel_j", "bessel_y", "bessel_i", "bessel_k"}

\* the recurrence of the Bessel function of node o
Recurrence(o) ==
    LET nu == o.ops[1]
        f == o.ops[2]
        B(m) == Bessel(o.k, IntValue(m, <<>>, {}), f)
        Bn(k) == Bessel(o.k, NuPlus(nu, k), f)
    IN IF IsNought(nu)
       THEN IF o.k = "BesselI" THEN B(1) ELSE Mult(IntValue(-1, <<>>, {}), B(1))
       ELSE IF o.k \in {"BesselJ", "BesselY"}
            THEN Mult(Half(1), Add(Bn(-1), Mult(IntValue(-1, <<>>, {}), Bn(1))))
       ELSE IF o.k = "BesselI" THEN Mult(Half(1), Add(Bn(-1), Bn(1)))
       ELSE Mult(Half(-1), Add(Bn(-1), Bn(1)))

\* C12: the derivative of a Bessel node is its recurrence times fp, the
\* derivative of the argument, and so is Zero when fp is Zero.
C12_BesselChainRule ==
    (last.h \in BesselHandlers /\ last.e = "") =>
        LET fp == last.rs[2].fp
        IN /\ last.r.fp \in {Mult(Recurrence(last.r.f), fp), Mult(fp, Recurrence(last.r.f))}
           /\ isZero(fp) => isZero(last.r.fp)

\* what the rules return: the recurrence alone
C12_RecurrenceOnly ==
    (last.h \in BesselHandlers /\ last.e = "") => last.r.fp = Recurrence(last.r.f)

\* C13: a conditional whose branch derivatives are both Zero gets one Zero
\* with the signature of a derivative of the conditional; any other
\* conditional gets conditional(cond, tp, fp) over the condition as it is.
C13_Conditional ==
    last.h = "conditional" =>
        LET c == last.rs[1]
            t == last.rs[2]
            f == last.rs[3]
        IN /\ last.e = ""
           /\ last.r.f.ops = <<c.f, t.f, f.f>>
           /\ IF isZero(t.fp) /\ isZero(f.fp)
              THEN isZero(last.r.fp) /\ SigOK(last.r.f, last.r.fp)
              ELSE /\ last.r.fp.k = "Conditional"
                   /\ last.r.fp.ops = <<c.f, t.fp, f.fp>>

\* C14: the rule for an applied spatial derivative visits f; a spatially
\* constant fp gives a Zero of fp's shape whose free indices are fp's,
\* extended by the marker's index j exactly when j is an Index that is not
\* among them; any other fp gives SpatialDerivative(fp, ii).  Any other
\* derivative marker is the fatal "This should never occur.".
C14_SpatialDerivative ==
    /\ last.h = "spatial_derivative" =>
          LET fp == last.rs[1].fp
              jx == last.o.idx[1]
          IN /\ last.e = ""
             /\ last.r.f.ops = <<last.rs[1].f>>
             /\ IF is_spatially_constant(fp)
                THEN /\ isZero(last.r.fp)
                     /\ last.r.fp.sh = fp.sh
                     /\ last.r.fp.fi = IF IsIndex(jx) /\ jx \notin SeqToSet(fp.fi)
                                       THEN Append(fp.fi, jx) ELSE fp.fi
                ELSE last.r.fp = SpatialDerivative(fp, last.o.idx, self.spatial_dim)
    /\ last.h = "derivative" =>
          /\ last.e = "This should never occur."
          /\ status = "error"
          /\ result = NoPair

\* C16: no rule writes to a node or to a container a node owns.
C16_NoMutation == mutations = <<>>

\* the entries 1..m of a table entry, each contracted with its direction,
\* accumulated from Zero (scalar derivatives and directions)
RECURSIVE Contracted(_, _)
Contracted(oprimes, m) ==
    IF m = 0 THEN Zero(<<>>, <<>>, {})
    ELSE Add(Contracted(oprimes, m - 1), Mult(oprimes[m], Indexed(self.v[m], <<>>)))

\* the entry of the table for coefficient o
TableEntry(o) == CHOOSE en \in self.cd : en.key = o
InTable(o) == o \notin SeqToSet(self.w) /\ \E en \in self.cd : en.key = o

\* C15: a table entry that is a single expression is accepted; a tuple with
\* one expression per direction is accepted and all its entries are
\* contracted and accumulated; an entry with another number of expressions
\* is rejected.
C15_TableEntry ==
    (last.h = "coefficient" /\ InTable(last.o)) =>
        LET en == TableEntry(last.o)
        IN IF ~en.tuple THEN last.e = ""
           ELSE IF Len(en.val) = Len(self.v)
           THEN last.e = "" /\ last.r.fp = Contracted(en.val, Len(self.v))
           ELSE last.e # "" /\ status = "error"

====
